---- MODULE Spec2Model ----
(***************************************************************************)
(* A model of app.py: the JSON extractor, the chat-completion calls (sync  *)
(* and streaming), the two structured queries built on them, and the chat  *)
(* history kept in st.session_state.                                       *)
(*                                                                         *)
(* Text is modelled as a sequence of one-character strings, so that the    *)
(* character scans of the source (find, the bracket counter, strip, the    *)
(* JSON grammar) are computed character by character.  Positions are       *)
(* 1-based; 0 stands for Python's -1 ("not found").                        *)
(***************************************************************************)
EXTENDS Integers, Sequences, FiniteSets, TLC

VARIABLES
  text,             \* the argument handed to extract_json_array (SpecExtract)
  op,               \* the operation that ran most recently and its user input
  outcome,          \* how that operation's call ended (returned / raised)
  endpoint,         \* the responses the endpoint gives to the coming requests, in order
  requests,         \* requests.post calls issued by the most recent operation
  extractor_calls,  \* extract_json_array calls made by the most recent operation
  last_recs_raw,    \* st.session_state["last_recs_raw"]
  last_fetch_raw,   \* st.session_state["last_fetch_raw"]
  chat,             \* st.session_state.chat
  pc,               \* where the Chatbot page's streaming turn stands
  lines,            \* SSE lines of the open stream not yet read
  yielded           \* deltas the stream generator has yielded so far

vars == <<text, op, outcome, endpoint, requests, extractor_calls, last_recs_raw,
          last_fetch_raw, chat, pc, lines, yielded>>

(***************************************************************************)
(* Bounds of the model.                                                    *)
(***************************************************************************)
MaxTextLen == 6

MaxReplyLen == 5

MaxContentLen == 3

MaxLines == 3

MaxTurns == 3

(***************************************************************************)
(* Python values that reach the code as "text": a str or None.             *)
(***************************************************************************)
PyStr(s) == [type |-> "str", s |-> s]

PyNone == [type |-> "NoneType", s |-> <<>>]

\* The quote character of JSON string literals.
Quote == "\""

RECURSIVE StringsUpTo(_, _)
StringsUpTo(chars, n) ==
  IF n = 0 THEN {<<>>}
  ELSE LET shorter == StringsUpTo(chars, n - 1)
       IN shorter \cup {Append(s, c) : s \in {t \in shorter : Len(t) = n - 1}, c \in chars}

(***************************************************************************)
(* Outcomes of a call: a returned value or a raised exception.             *)
(***************************************************************************)
NoError == [exc |-> "", msg |-> "", parts |-> <<>>]

Returned(v) == [kind |-> "return", value |-> v, error |-> NoError]

Raised(e) == [kind |-> "raise", value |-> <<>>, error |-> e]

Error(exc, msg) == [exc |-> exc, msg |-> msg, parts |-> <<>>]

Idle == [kind |-> "idle", value |-> <<>>, error |-> NoError]

\* The operation that ran last: its name and the user text it was given.
Op(name, input) == [name |-> name, input |-> input]

NoOp == Op("", PyNone)

(***************************************************************************)
(* extract_json_array (app.py 43-59)                                       *)
(***************************************************************************)
\* str.find: the first position of character c, or 0 when there is none.
find(s, c) ==
  IF \E i \in 1..Len(s) : s[i] = c
  THEN CHOOSE i \in 1..Len(s) : s[i] = c /\ \A j \in 1..(i - 1) : s[j] # c
  ELSE 0

\* The for loop of lines 51-58, from position i with the counter at depth.
RECURSIVE scan_brackets(_, _, _, _)
scan_brackets(s, start, i, depth) ==
  IF i > Len(s)
  THEN Raised(Error("ValueError", "no matching closing ']' found"))
  ELSE LET c == s[i]
       IN IF c = "["
          THEN scan_brackets(s, start, i + 1, depth + 1)
          ELSE IF c = "]"
               THEN IF depth - 1 = 0
                    THEN Returned(SubSeq(s, start, i))
                    ELSE scan_brackets(s, start, i + 1, depth - 1)
               ELSE scan_brackets(s, start, i + 1, depth)

\* A variant whose bracket counter starts at the beginning of the text instead
\* of at the first '['.
extract_json_array_from_top(t) ==
  IF t.type # "str"
  THEN Raised(Error("ValueError", "extract_json_array expects a string"))
  ELSE LET start == find(t.s, "[")
       IN IF start = 0
          THEN Raised(Error("ValueError", "no '[' found in text"))
          ELSE scan_brackets(t.s, start, 1, 0)

extract_json_array(t) ==
  IF t.type # "str"
  THEN Raised(Error("ValueError", "extract_json_array expects a string"))
  ELSE LET start == find(t.s, "[")
       IN IF start = 0
          THEN Raised(Error("ValueError", "no '[' found in text"))
          ELSE scan_brackets(t.s, start, start, 0)

(***************************************************************************)
(* json.loads (called at app.py 94, 97, 128, 131, 163, 349), as far as the *)
(* texts of the model go: arrays, objects, string literals without escapes *)
(* and unsigned integers, with insignificant whitespace.  A parsed value   *)
(* is kept as its kind, the kinds of its elements when it is an array, and *)
(* its text without the insignificant whitespace.                          *)
(***************************************************************************)
Whitespace == {" ", "\n"}

Digits == {"0", "1", "2", "3", "4", "5", "6", "7", "8", "9"}

Fail(msg, i) ==
  [ok |-> FALSE, next |-> i, kind |-> "", elems |-> <<>>, canon |-> <<>>, msg |-> msg]

Parsed(kind, next, elems, canon) ==
  [ok |-> TRUE, next |-> next, kind |-> kind, elems |-> elems, canon |-> canon, msg |-> ""]

RECURSIVE skip_ws(_, _)
skip_ws(s, i) ==
  IF i <= Len(s) /\ s[i] \in Whitespace THEN skip_ws(s, i + 1) ELSE i

\* A string literal opening at s[i]: it runs to the next quote; a line break
\* inside it is an invalid control character.
parse_string(s, i) ==
  LET j == find(SubSeq(s, i + 1, Len(s)), Quote)
  IN IF j = 0
     THEN Fail("Unterminated string starting at", i)
     ELSE IF \E k \in (i + 1)..(i + j - 1) : s[k] = "\n"
          THEN Fail("Invalid control character at", i)
          ELSE Parsed("string", i + j + 1, <<>>, SubSeq(s, i, i + j))

RECURSIVE digits_end(_, _)
digits_end(s, i) ==
  IF i <= Len(s) /\ s[i] \in Digits THEN digits_end(s, i + 1) ELSE i

\* An unsigned integer opening at s[i]: "0" alone, or a run of digits.
parse_number(s, i) ==
  LET e == IF s[i] = "0" THEN i + 1 ELSE digits_end(s, i)
  IN Parsed("number", e, <<>>, SubSeq(s, i, e - 1))

RECURSIVE parse_value(_, _)
RECURSIVE parse_elements(_, _, _, _)
RECURSIVE parse_members(_, _, _)

\* The elements of an array from position k (whitespace skipped), those before
\* it having the kinds `kinds` and the text `canon`.
parse_elements(s, k, kinds, canon) ==
  LET v == parse_value(s, k)
  IN IF ~v.ok
     THEN v
     ELSE LET e == skip_ws(s, v.next)
              kinds2 == Append(kinds, v.kind)
              canon2 == canon \o v.canon
          IN IF e > Len(s)
             THEN Fail("Expecting ',' delimiter", e)
             ELSE IF s[e] = "]"
                  THEN Parsed("array", e + 1, kinds2, Append(canon2, "]"))
                  ELSE IF s[e] = ","
                       THEN parse_elements(s, skip_ws(s, e + 1), kinds2, Append(canon2, ","))
                       ELSE Fail("Expecting ',' delimiter", e)

\* The members of an object from position k (whitespace skipped).
parse_members(s, k, canon) ==
  IF k > Len(s) \/ s[k] # Quote
  THEN Fail("Expecting property name enclosed in double quotes", k)
  ELSE LET key == parse_string(s, k)
       IN IF ~key.ok
          THEN key
          ELSE LET c == skip_ws(s, key.next)
               IN IF c > Len(s) \/ s[c] # ":"
                  THEN Fail("Expecting ':' delimiter", c)
                  ELSE LET v == parse_value(s, skip_ws(s, c + 1))
                       IN IF ~v.ok
                          THEN v
                          ELSE LET e == skip_ws(s, v.next)
                                   canon2 == canon \o key.canon \o <<":">> \o v.canon
                               IN IF e > Len(s)
                                  THEN Fail("Expecting ',' delimiter", e)
                                  ELSE IF s[e] = "}"
                                       THEN Parsed("object", e + 1, <<>>, Append(canon2, "}"))
                                       ELSE IF s[e] = ","
                                            THEN parse_members(s, skip_ws(s, e + 1),
                                                               Append(canon2, ","))
                                            ELSE Fail("Expecting ',' delimiter", e)

parse_value(s, k) ==
  IF k > Len(s)
  THEN Fail("Expecting value", k)
  ELSE IF s[k] = "["
       THEN LET a == skip_ws(s, k + 1)
            IN IF a <= Len(s) /\ s[a] = "]"
               THEN Parsed("array", a + 1, <<>>, <<"[", "]">>)
               ELSE parse_elements(s, a, <<>>, <<"[">>)
       ELSE IF s[k] = "{"
            THEN LET a == skip_ws(s, k + 1)
                 IN IF a <= Len(s) /\ s[a] = "}"
                    THEN Parsed("object", a + 1, <<>>, <<"{", "}">>)
                    ELSE parse_members(s, a, <<"{">>)
            ELSE IF s[k] = Quote
                 THEN parse_string(s, k)
                 ELSE IF s[k] \in Digits
                      THEN parse_number(s, k)
                      ELSE Fail("Expecting value", k)

\* The value json.loads returns: what the callers can observe of it.
JsonValue(p) == [kind |-> p.kind, elems |-> p.elems, canon |-> p.canon]

\* json.loads once the text is scanned: p is the parse of the first value.
loads_result(s, p) ==
  IF ~p.ok
  THEN Raised(Error("JSONDecodeError", p.msg))
  ELSE IF skip_ws(s, p.next) <= Len(s)
       THEN Raised(Error("JSONDecodeError", "Extra data"))
       ELSE Returned(JsonValue(p))

json_loads(t) ==
  IF t.type # "str"
  THEN Raised(Error("TypeError", "the JSON object must be str, bytes or bytearray"))
  ELSE loads_result(t.s, parse_value(t.s, skip_ws(t.s, 1)))

(***************************************************************************)
(* The endpoint.  A response is its HTTP status, whether its body is JSON, *)
(* the decoded JSON (a key the body lacks is a field the record lacks) and, *)
(* for a streamed response, its SSE lines.                                 *)
(***************************************************************************)
GROQ_URL == "https://api.groq.com/openai/v1/chat/completions"

GROQ_MODEL == "meta-llama/llama-4-scout-17b-16e-instruct"

BodyNoChoices == [object |-> "chat.completion"]

BodyEmptyChoices == [object |-> "chat.completion", choices |-> <<>>]

BodyNoMessage == [object |-> "chat.completion", choices |-> <<[index |-> 0]>>]

BodyNoContent ==
  [object |-> "chat.completion",
   choices |-> <<[index |-> 0, message |-> [role |-> "assistant"]]>>]

BodyContent(c) ==
  [object |-> "chat.completion",
   choices |-> <<[index |-> 0, message |-> [role |-> "assistant", content |-> c]]>>]

JsonResponse(status, json) ==
  [status |-> status, is_json |-> TRUE, json |-> json, lines |-> <<>>]

\* A body that is no JSON at all (an HTML error page, an empty body).
TextResponse(status) ==
  [status |-> status, is_json |-> FALSE, json |-> BodyNoChoices, lines |-> <<>>]

\* response.raise_for_status(): an HTTPError for a 4xx or 5xx status, nothing
\* for any other status.
raise_for_status(resp) ==
  IF 400 <= resp.status /\ resp.status < 600
  THEN Raised(Error("HTTPError", "Client or Server Error for url"))
  ELSE Returned(<<>>)

\* resp.json()["choices"][0]["message"]["content"]
message_content(resp) ==
  IF ~resp.is_json
  THEN Raised(Error("JSONDecodeError", "Expecting value"))
  ELSE IF "choices" \notin DOMAIN resp.json
       THEN Raised(Error("KeyError", "choices"))
       ELSE IF Len(resp.json.choices) = 0
            THEN Raised(Error("IndexError", "list index out of range"))
            ELSE IF "message" \notin DOMAIN resp.json.choices[1]
                 THEN Raised(Error("KeyError", "message"))
                 ELSE IF "content" \notin DOMAIN resp.json.choices[1].message
                      THEN Raised(Error("KeyError", "content"))
                      ELSE Returned(resp.json.choices[1].message.content)

\* str.strip() with no argument.
PyWhitespace == {" ", "\n", "\t", "\r"}

RECURSIVE lstrip(_)
lstrip(s) == IF s # <<>> /\ Head(s) \in PyWhitespace THEN lstrip(Tail(s)) ELSE s

RECURSIVE rstrip(_)
rstrip(s) ==
  IF s # <<>> /\ s[Len(s)] \in PyWhitespace THEN rstrip(SubSeq(s, 1, Len(s) - 1)) ELSE s

strip(s) == rstrip(lstrip(s))

Payload(msgs, temperature) ==
  [url |-> GROQ_URL, model |-> GROQ_MODEL, messages |-> msgs,
   temperature |-> temperature, stream |-> FALSE]

StreamPayload(msgs, temperature) ==
  [url |-> GROQ_URL, model |-> GROQ_MODEL, messages |-> msgs,
   temperature |-> temperature, stream |-> TRUE]

Message(role, content) == [role |-> role, content |-> content]

(***************************************************************************)
(* send_chat_completion (app.py 172-187).  `answers` are the responses the *)
(* endpoint gives to this call's requests, in order; the result is the     *)
(* call's outcome and the requests it posted.                              *)
(***************************************************************************)
\* A variant that posts the request a second time when the first answer is an
\* HTTP error.
send_chat_completion_retry(msgs, temperature, answers) ==
  LET payload == Payload(msgs, temperature)
      failed == raise_for_status(answers[1]).kind = "raise" /\ Len(answers) > 1
      resp == IF failed THEN answers[2] ELSE answers[1]
      c == message_content(resp)
  IN [sent |-> IF failed THEN <<payload, payload>> ELSE <<payload>>,
      outcome |->
        IF raise_for_status(resp).kind = "raise"
        THEN raise_for_status(resp)
        ELSE IF c.kind = "raise"
             THEN c
             ELSE IF c.value.type # "str"
                  THEN Raised(Error("AttributeError", "object has no attribute 'strip'"))
                  ELSE Returned(PyStr(strip(c.value.s)))]

send_chat_completion(msgs, temperature, answers) ==
  LET payload == Payload(msgs, temperature)
      resp == answers[1]
      c == message_content(resp)
  IN [sent |-> <<payload>>,
      outcome |->
        IF raise_for_status(resp).kind = "raise"
        THEN raise_for_status(resp)
        ELSE IF c.kind = "raise"
             THEN c
             ELSE IF c.value.type # "str"
                  THEN Raised(Error("AttributeError", "object has no attribute 'strip'"))
                  ELSE Returned(PyStr(strip(c.value.s)))]

(***************************************************************************)
(* The parse of a reply: json.loads first, extract_json_array only when    *)
(* that raises JSONDecodeError (app.py 93-97 and, the same lines again,    *)
(* 127-131).  The result is the parsed value or the exception that escapes,*)
(* and the number of extract_json_array calls made.                        *)
(***************************************************************************)
\* Lines 96-97 (130-131): the extractor's result arr, then its parse.
parse_extracted(arr) ==
  [extractor_calls |-> 1,
   outcome |-> IF arr.kind = "raise" THEN arr ELSE json_loads(PyStr(arr.value))]

\* A variant that runs the extractor whatever the direct parse gave.
parse_fallback_always(t, direct) == parse_extracted(extract_json_array(t))

\* Lines 93-97 once json.loads(text) has ended as `direct`: only a
\* JSONDecodeError is caught by the inner except clause.
parse_fallback(t, direct) ==
  IF direct.kind = "return" \/ direct.error.exc # "JSONDecodeError"
  THEN [extractor_calls |-> 0, outcome |-> direct]
  ELSE parse_extracted(extract_json_array(t))

parse_reply(t) == parse_fallback(t, json_loads(t))

\* str(e) of an exception, as interpolated into an f-string.
str(e) == PyStr(<<e.msg>>)

(***************************************************************************)
(* get_travel_recommendations (app.py 64-102)                              *)
(***************************************************************************)
RecsPrompt(destination, budget, experience_type, month) ==
  PyStr(<<"Suggest 3-4 unique travel activities for ", destination, " in ", month,
          " with a ", budget, " budget focused on ", experience_type,
          ". For each suggestion, return JSON with fields: title, desc, links.",
          " Respond ONLY with a valid JSON array.">>)

RecsMessages(destination, budget, experience_type, month) ==
  << Message("system", PyStr(<<"You are a travel AI assistant. Always return ONLY valid JSON.">>)),
     Message("user", RecsPrompt(destination, budget, experience_type, month)) >>

\* Line 102: the exception raised is built from the caught one alone.
RecsParseError(e) ==
  [exc |-> "ValueError",
   msg |-> "Failed to parse recommendations JSON: {e}. Raw output stored in session_state['last_recs_raw'].",
   parts |-> <<str(e)>>]

\* A variant whose except clause does not store the raw text.
recs_parsed_no_store(payload, reply, parsed, raw) ==
  IF parsed.outcome.kind = "return"
  THEN [sent |-> <<payload>>, extractor_calls |-> parsed.extractor_calls,
        last_recs_raw |-> raw, outcome |-> parsed.outcome]
  ELSE [sent |-> <<payload>>, extractor_calls |-> parsed.extractor_calls,
        last_recs_raw |-> raw, outcome |-> Raised(RecsParseError(parsed.outcome.error))]

\* Lines 92-102, the parse of the reply having ended as `parsed`: return recs,
\* or store the raw text in the session and raise.
recs_parsed(payload, reply, parsed, raw) ==
  IF parsed.outcome.kind = "return"
  THEN [sent |-> <<payload>>, extractor_calls |-> parsed.extractor_calls,
        last_recs_raw |-> raw, outcome |-> parsed.outcome]
  ELSE [sent |-> <<payload>>, extractor_calls |-> parsed.extractor_calls,
        last_recs_raw |-> reply, outcome |-> Raised(RecsParseError(parsed.outcome.error))]

\* Line 90 having ended as c (the content, or the exception of the lookup,
\* which is raised outside the try of line 92).
recs_content(payload, c, raw) ==
  IF c.kind = "raise"
  THEN [sent |-> <<payload>>, extractor_calls |-> 0, last_recs_raw |-> raw, outcome |-> c]
  ELSE recs_parsed(payload, c.value, parse_reply(c.value), raw)

\* Lines 85-90: one post, raise_for_status, the content lookup.
recs_response(payload, response, raw) ==
  IF raise_for_status(response).kind = "raise"
  THEN [sent |-> <<payload>>, extractor_calls |-> 0, last_recs_raw |-> raw,
        outcome |-> raise_for_status(response)]
  ELSE recs_content(payload, message_content(response), raw)

get_travel_recommendations(destination, budget, experience_type, month, answers, raw) ==
  recs_response(Payload(RecsMessages(destination, budget, experience_type, month), "0.7"),
                answers[1], raw)

(***************************************************************************)
(* fetch_global_events (app.py 104-137)                                    *)
(***************************************************************************)
EventsPrompt(month_name, limit) ==
  PyStr(<<"Return a JSON array with ", limit,
          " notable global events / festivals / experiences happening in ", month_name,
          ". For each item return an object with fields: title, date, location,",
          " description, hook. Respond ONLY with a valid JSON array.">>)

EventsMessages(month_name, limit) ==
  << Message("system",
             PyStr(<<"You are a concise travel assistant. Always return ONLY valid JSON.">>)),
     Message("user", EventsPrompt(month_name, limit)) >>

\* The [] of line 137.
EmptyList == [kind |-> "array", elems |-> <<>>, canon |-> <<"[", "]">>]

\* Lines 126-137, the parse of the reply having ended as `parsed`: the events,
\* or the raw text stored and a ValueError that the outer except clause turns
\* into [].
events_parsed(call, parsed, raw) ==
  IF parsed.outcome.kind = "return"
  THEN [sent |-> call.sent, extractor_calls |-> parsed.extractor_calls,
        last_fetch_raw |-> raw, outcome |-> parsed.outcome]
  ELSE [sent |-> call.sent, extractor_calls |-> parsed.extractor_calls,
        last_fetch_raw |-> call.outcome.value, outcome |-> Returned(EmptyList)]

\* A variant whose outer except clause is missing: an error of the completion
\* call escapes.
events_call_propagating(call, raw) ==
  IF call.outcome.kind = "raise"
  THEN [sent |-> call.sent, extractor_calls |-> 0, last_fetch_raw |-> raw,
        outcome |-> call.outcome]
  ELSE events_parsed(call, parse_reply(call.outcome.value), raw)

\* Lines 124-137, send_chat_completion having ended as `call`.
events_call(call, raw) ==
  IF call.outcome.kind = "raise"
  THEN [sent |-> call.sent, extractor_calls |-> 0, last_fetch_raw |-> raw,
        outcome |-> Returned(EmptyList)]
  ELSE events_parsed(call, parse_reply(call.outcome.value), raw)

fetch_global_events(month_name, limit, answers, raw) ==
  events_call(send_chat_completion(EventsMessages(month_name, limit), "0.3", answers), raw)

(***************************************************************************)
(* SpecExtract: extract_json_array applied to every text over TextChars of *)
(* at most MaxTextLen characters.                                          *)
(***************************************************************************)
TextChars == {"[", "]", Quote, "x"}

Texts == StringsUpTo(TextChars, MaxTextLen)

InitSession ==
  /\ last_recs_raw = PyNone
  /\ last_fetch_raw = PyNone
  /\ chat = <<>>
  /\ pc = "idle"
  /\ lines = <<>>
  /\ yielded = <<>>

InitExtract ==
  /\ text \in {PyStr(s) : s \in Texts}
  /\ op = NoOp
  /\ outcome = Idle
  /\ endpoint = <<>>
  /\ requests = <<>>
  /\ extractor_calls = 0
  /\ InitSession

Extract ==
  /\ outcome.kind = "idle"
  /\ op' = Op("extract_json_array", PyNone)
  /\ outcome' = extract_json_array(text)
  /\ UNCHANGED <<text, endpoint, requests, extractor_calls, last_recs_raw,
                 last_fetch_raw, chat, pc, lines, yielded>>

NextExtract == Extract

SpecExtract == InitExtract /\ [][NextExtract]_vars

(***************************************************************************)
(* SpecQuery: the two structured queries against an endpoint whose reply   *)
(* is any text over ReplyChars of at most MaxReplyLen characters, or one   *)
(* of the failing responses.                                               *)
(***************************************************************************)
ReplyChars == {"[", "]", "{", "}", Quote, "x", " "}

ReplyTexts == StringsUpTo(ReplyChars, MaxReplyLen)

FailingResponses ==
  {JsonResponse(200, b) : b \in {BodyNoChoices, BodyEmptyChoices, BodyNoMessage,
                                 BodyNoContent, BodyContent(PyNone)}}
    \cup {TextResponse(200), TextResponse(502)}
    \cup {JsonResponse(st, BodyContent(PyStr(<<"[", "]">>))) : st \in {404, 500}}

QueryResponses ==
  {JsonResponse(200, BodyContent(PyStr(t))) : t \in ReplyTexts}
    \cup {JsonResponse(304, BodyContent(PyStr(<<"[", "]">>)))}
    \cup FailingResponses

InitQuery ==
  /\ text = PyNone
  /\ op = NoOp
  /\ outcome = Idle
  /\ endpoint \in {<<r>> : r \in QueryResponses}
  /\ requests = <<>>
  /\ extractor_calls = 0
  /\ InitSession

\* The "Get Recommendations" form of the Discover page (app.py 283-286), with
\* the form's default entries.
GetRecommendations ==
  /\ pc = "idle"
  /\ \E r \in {get_travel_recommendations("Paris", "50000 Rs", "Relaxed", "December",
                                            endpoint, last_recs_raw)} :
       /\ op' = Op("get_travel_recommendations", PyNone)
       /\ outcome' = r.outcome
       /\ requests' = r.sent
       /\ extractor_calls' = r.extractor_calls
       /\ last_recs_raw' = r.last_recs_raw
  /\ UNCHANGED <<text, endpoint, last_fetch_raw, chat, pc, lines, yielded>>

\* The "Fetch global highlights" button (app.py 463-465).
FetchGlobalEvents ==
  /\ pc = "idle"
  /\ \E r \in {fetch_global_events("September", "4", endpoint, last_fetch_raw)} :
       /\ op' = Op("fetch_global_events", PyNone)
       /\ outcome' = r.outcome
       /\ requests' = r.sent
       /\ extractor_calls' = r.extractor_calls
       /\ last_fetch_raw' = r.last_fetch_raw
  /\ UNCHANGED <<text, endpoint, last_recs_raw, chat, pc, lines, yielded>>

NextQuery == GetRecommendations \/ FetchGlobalEvents

SpecQuery == InitQuery /\ [][NextQuery]_vars

(***************************************************************************)
(* The chat session: st.session_state.chat, the suggestion buttons of the  *)
(* Your Journeys page and the streaming turn of the Chatbot page.          *)
(***************************************************************************)
SystemPersona ==
  Message("system",
          PyStr(<<"You are a concise, reliable travel assistant. Prefer ranges and practical steps.">>))

\* The user_prompt of the three suggestion buttons (lines 403, 417, 430).
ButtonPrompts ==
  { PyStr(<<"Suggest a 3-day Darjeeling trip this September with top activities and price ranges.">>),
    PyStr(<<"Suggest a 3-day Pondicherry plan for December with food highlights and price ranges.">>),
    PyStr(<<"Suggest top beach activities in Phuket this summer with estimated prices.">>) }

\* What the user types into st.chat_input (a non-empty text: line 321).
ChatInputs == {PyStr(<<"H", "i">>)}

\* Lines 410-413, send_chat_completion having ended as `call` with the user
\* message already in `appended`: the reply is appended, or the error shown.
button_reply(appended, call) ==
  [chat |-> IF call.outcome.kind = "return"
            THEN Append(appended, Message("assistant", call.outcome.value))
            ELSE appended,
   outcome |-> call.outcome,
   sent |-> call.sent]

\* A variant that puts the assistant's reply in front of the user's message.
suggestion_button_reply_first(history, user_prompt, answers) ==
  \* the request is built from the history with the user message, the stored
  \* order is wrong
  LET call == send_chat_completion(
                <<SystemPersona>> \o Append(history, Message("user", user_prompt)),
                "0.5", answers)
  IN [chat |-> IF call.outcome.kind = "return"
               THEN history \o <<Message("assistant", call.outcome.value),
                                 Message("user", user_prompt)>>
               ELSE Append(history, Message("user", user_prompt)),
      outcome |-> call.outcome,
      sent |-> call.sent]

\* A variant that takes the user's message back when the call fails.
suggestion_button_rollback(history, user_prompt, answers) ==
  LET call == send_chat_completion(
                <<SystemPersona>> \o Append(history, Message("user", user_prompt)),
                "0.5", answers)
  IN [chat |-> IF call.outcome.kind = "return"
               THEN history \o <<Message("user", user_prompt),
                                 Message("assistant", call.outcome.value)>>
               ELSE history,
      outcome |-> call.outcome,
      sent |-> call.sent]

\* A variant that keeps the persona in the stored history: it is put there
\* with the user's message, and the request is the stored history itself.
suggestion_button_persona_stored(history, user_prompt, answers) ==
  button_reply(history \o <<SystemPersona, Message("user", user_prompt)>>,
               send_chat_completion(
                 history \o <<SystemPersona, Message("user", user_prompt)>>,
                 "0.5", answers))

\* The handler of a suggestion button (lines 402-413, 416-426, 429-439).
suggestion_button(history, user_prompt, answers) ==
  button_reply(Append(history, Message("user", user_prompt)),
               send_chat_completion(
                 <<SystemPersona>> \o Append(history, Message("user", user_prompt)),
                 "0.5", answers))

(***************************************************************************)
(* The SSE stream (groq_chat_stream, app.py 139-170, and the same loop in  *)
(* stream_gen, 330-355).  A line is the text before its payload (the       *)
(* "data: " prefix, something else, or nothing), the payload's text and,   *)
(* when that text is JSON, the decoded chunk.                              *)
(***************************************************************************)
ChunkNoChoices == [object |-> "chat.completion.chunk"]

ChunkEmptyChoices == [object |-> "chat.completion.chunk", choices |-> <<>>]

ChunkNoDelta == [object |-> "chat.completion.chunk", choices |-> <<[index |-> 0]>>]

\* A chunk whose delta carries a role only.
ChunkNoContent ==
  [object |-> "chat.completion.chunk",
   choices |-> <<[index |-> 0, delta |-> [role |-> "assistant"]]>>]

ChunkContent(c) ==
  [object |-> "chat.completion.chunk",
   choices |-> <<[index |-> 0, delta |-> [role |-> "assistant", content |-> c]]>>]

Line(prefix, payload, is_json, json) ==
  [prefix |-> prefix, payload |-> payload, is_json |-> is_json, json |-> json]

EmptyLine == Line("", "", FALSE, ChunkNoChoices)

DoneLine == Line("data: ", "[DONE]", FALSE, ChunkNoChoices)

\* The sentinel after "data:" with no space: not a "data: " line.
DoneNoSpaceLine == Line("data:", "[DONE]", FALSE, ChunkNoChoices)

BadJsonLine == Line("data: ", "not-json", FALSE, ChunkNoChoices)

DataLine(json) == Line("data: ", "{...}", TRUE, json)

\* A chunk on a line of its own, without the "data: " prefix.
BareLine(json) == Line("", "{...}", TRUE, json)

DeltaHi == PyStr(<<"H", "i">>)

DeltaThere == PyStr(<<" ", "t", "h", "e", "r", "e">>)

StreamResponse(status, ls) ==
  [status |-> status, is_json |-> FALSE, json |-> BodyNoChoices, lines |-> ls]

\* One turn of the for loop of lines 155-169 (341-355) on one line: the
\* generator yields a delta, goes on to the next line, or leaves the loop.
Yield(delta) == [kind |-> "yield", delta |-> delta]

Continue == [kind |-> "continue", delta |-> PyNone]

Break == [kind |-> "break", delta |-> PyNone]

\* obj["choices"][0]["delta"].get("content") and the test "if delta": an
\* exception of the lookup is caught (continue), None and "" are not yielded.
delta_step(obj) ==
  IF "choices" \notin DOMAIN obj
  THEN Continue
  ELSE IF Len(obj.choices) = 0
       THEN Continue
       ELSE IF "delta" \notin DOMAIN obj.choices[1]
            THEN Continue
            ELSE IF "content" \notin DOMAIN obj.choices[1].delta
                 THEN Continue
                 ELSE IF obj.choices[1].delta.content.type # "str"
                         \/ obj.choices[1].delta.content.s = <<>>
                      THEN Continue
                      ELSE Yield(obj.choices[1].delta.content)

\* A variant in which a payload that is not JSON ends the stream.
sse_step_break_on_bad(line) ==
  IF line.prefix = "" /\ line.payload = ""
  THEN Continue
  ELSE IF line.prefix # "data: "
       THEN Continue
       ELSE IF line.payload = "[DONE]"
            THEN Break
            ELSE IF ~line.is_json
                 THEN Break
                 ELSE delta_step(line.json)

sse_step(line) ==
  IF line.prefix = "" /\ line.payload = ""
  THEN Continue
  ELSE IF line.prefix # "data: "
       THEN Continue
       ELSE IF line.payload = "[DONE]"
            THEN Break
            ELSE IF ~line.is_json
                 THEN Continue
                 ELSE delta_step(line.json)

\* The deltas the loop yields over the lines ls, st being the step on the
\* first of them.
RECURSIVE sse_deltas(_)
sse_after(st, rest) ==
  IF st.kind = "break"
  THEN <<>>
  ELSE IF st.kind = "yield" THEN <<st.delta>> \o sse_deltas(rest) ELSE sse_deltas(rest)

sse_deltas(ls) == IF ls = <<>> THEN <<>> ELSE sse_after(sse_step(Head(ls)), Tail(ls))

\* groq_chat_stream, consumed to its end: the deltas, or the HTTPError of
\* raise_for_status.
groq_chat_stream(resp) ==
  IF raise_for_status(resp).kind = "raise"
  THEN raise_for_status(resp)
  ELSE Returned(sse_deltas(resp.lines))

\* A variant that keeps the last chunk only.
concat_last(deltas) == IF deltas = <<>> THEN <<>> ELSE deltas[Len(deltas)].s

\* st.write_stream's return value: the concatenation of the chunks written.
RECURSIVE concat(_)
concat(deltas) == IF deltas = <<>> THEN <<>> ELSE Head(deltas).s \o concat(Tail(deltas))

(***************************************************************************)
(* The handlers as steps.  ButtonTurn is a whole suggestion-button         *)
(* handler.  A Chatbot turn is ChatTurn (lines 320-338: the user message   *)
(* appended, the request posted), then one StreamLine per line read, then  *)
(* StreamEnd (lines 358-360), or StreamAbort when reading the response     *)
(* raises.                                                                 *)
(***************************************************************************)
ButtonTurn(user_prompt, answers) ==
  /\ pc = "idle"
  /\ \E r \in {suggestion_button(chat, user_prompt, answers)} :
       /\ chat' = r.chat
       /\ outcome' = r.outcome
       /\ requests' = r.sent
  /\ op' = Op("suggestion_button", user_prompt)
  /\ endpoint' = answers
  /\ UNCHANGED <<text, extractor_calls, last_recs_raw, last_fetch_raw, pc, lines, yielded>>

ChatTurn(user_msg, answers) ==
  /\ pc = "idle"
  /\ chat' = Append(chat, Message("user", user_msg))
  /\ requests' = <<StreamPayload(<<SystemPersona>> \o chat', "0.5")>>
  /\ op' = Op("chat_input", user_msg)
  /\ endpoint' = answers
  /\ yielded' = <<>>
  /\ IF raise_for_status(answers[1]).kind = "raise"
     THEN /\ outcome' = raise_for_status(answers[1])
          /\ pc' = "idle"
          /\ lines' = <<>>
     ELSE /\ outcome' = Idle
          /\ pc' = "streaming"
          /\ lines' = answers[1].lines
  /\ UNCHANGED <<text, extractor_calls, last_recs_raw, last_fetch_raw>>

StreamLine ==
  /\ pc = "streaming"
  /\ lines # <<>>
  /\ \E st \in {sse_step(Head(lines))} :
       /\ yielded' = IF st.kind = "yield" THEN Append(yielded, st.delta) ELSE yielded
       /\ pc' = IF st.kind = "break" THEN "exhausted" ELSE "streaming"
  /\ lines' = Tail(lines)
  /\ UNCHANGED <<text, op, outcome, endpoint, requests, extractor_calls, last_recs_raw,
                 last_fetch_raw, chat>>

StreamEnd ==
  /\ \/ pc = "exhausted"
     \/ pc = "streaming" /\ lines = <<>>
  /\ outcome' = Returned(PyStr(concat(yielded)))
  /\ chat' = Append(chat, Message("assistant", PyStr(concat(yielded))))
  /\ pc' = "idle"
  /\ UNCHANGED <<text, op, endpoint, requests, extractor_calls, last_recs_raw,
                 last_fetch_raw, lines, yielded>>

\* Reading the response raises (the connection breaks): the exception leaves
\* st.write_stream and line 360 is not reached.
StreamAbort ==
  /\ pc = "streaming"
  /\ outcome' = Raised(Error("ChunkedEncodingError", "Connection broken"))
  /\ pc' = "idle"
  /\ UNCHANGED <<text, op, endpoint, requests, extractor_calls, last_recs_raw,
                 last_fetch_raw, chat, lines, yielded>>

(***************************************************************************)
(* SpecTurn: one chat turn on top of a prior history, against every        *)
(* response of SyncResponses and every stream of at most MaxLines lines.   *)
(***************************************************************************)
Contents == StringsUpTo({" ", "a"}, MaxContentLen)

SyncResponses ==
  {JsonResponse(200, BodyContent(PyStr(c))) : c \in Contents}
    \cup {JsonResponse(304, BodyContent(PyStr(<<" ", "a">>)))}
    \cup FailingResponses

\* What the endpoint would answer to a second request of the same call.
RetryAnswer == JsonResponse(200, BodyContent(PyStr(<<"a">>)))

SyncAnswers == {<<r, RetryAnswer>> : r \in SyncResponses}

LineKinds ==
  { EmptyLine, DoneLine, DoneNoSpaceLine, BadJsonLine,
    BareLine(ChunkContent(DeltaThere)),
    DataLine(ChunkNoChoices), DataLine(ChunkEmptyChoices), DataLine(ChunkNoDelta),
    DataLine(ChunkNoContent), DataLine(ChunkContent(PyNone)),
    DataLine(ChunkContent(PyStr(<<>>))),
    DataLine(ChunkContent(DeltaHi)), DataLine(ChunkContent(DeltaThere)) }

StreamAnswers ==
  {<<StreamResponse(200, ls)>> : ls \in StringsUpTo(LineKinds, MaxLines)}
    \cup {<<StreamResponse(503, <<>>)>>}

\* Histories an earlier part of the session can have left.
PriorHistories ==
  { <<>>,
    << Message("user", PyStr(<<"H", "i">>)), Message("assistant", PyStr(<<"a">>)) >> }

InitTurn ==
  /\ text = PyNone
  /\ op = NoOp
  /\ outcome = Idle
  /\ endpoint = <<>>
  /\ requests = <<>>
  /\ extractor_calls = 0
  /\ last_recs_raw = PyNone
  /\ last_fetch_raw = PyNone
  /\ chat \in PriorHistories
  /\ pc = "idle"
  /\ lines = <<>>
  /\ yielded = <<>>

FirstButtonTurn ==
  /\ op = NoOp
  /\ \E user_prompt \in ButtonPrompts : \E answers \in SyncAnswers :
       ButtonTurn(user_prompt, answers)

FirstChatTurn ==
  /\ op = NoOp
  /\ \E user_msg \in ChatInputs : \E answers \in StreamAnswers :
       ChatTurn(user_msg, answers)

NextTurn == FirstButtonTurn \/ FirstChatTurn \/ StreamLine \/ StreamEnd \/ StreamAbort

SpecTurn == InitTurn /\ [][NextTurn]_vars

(***************************************************************************)
(* Spec: a session of at most MaxTurns chat turns, of either kind, against *)
(* a few responses of each sort.                                           *)
(***************************************************************************)
FewSyncAnswers ==
  { <<JsonResponse(200, BodyContent(PyStr(<<" ", "a", " ">>))), RetryAnswer>>,
    <<JsonResponse(200, BodyNoChoices), RetryAnswer>>,
    <<JsonResponse(500, BodyContent(PyStr(<<"a">>))), RetryAnswer>> }

FewStreamAnswers ==
  { <<StreamResponse(200, <<DataLine(ChunkContent(DeltaHi)), BadJsonLine,
                            DataLine(ChunkContent(DeltaThere)), DoneLine>>)>>,
    <<StreamResponse(200, <<DataLine(ChunkNoContent), DoneLine,
                            DataLine(ChunkContent(DeltaHi))>>)>>,
    <<StreamResponse(503, <<>>)>> }

Turns == Cardinality({i \in DOMAIN chat : chat[i].role = "user"})

Init ==
  /\ text = PyNone
  /\ op = NoOp
  /\ outcome = Idle
  /\ endpoint = <<>>
  /\ requests = <<>>
  /\ extractor_calls = 0
  /\ InitSession

SuggestionButton ==
  /\ Turns < MaxTurns
  /\ \E user_prompt \in ButtonPrompts : \E answers \in FewSyncAnswers :
       ButtonTurn(user_prompt, answers)

ChatInput ==
  /\ Turns < MaxTurns
  /\ \E user_msg \in ChatInputs : \E answers \in FewStreamAnswers :
       ChatTurn(user_msg, answers)

Next == SuggestionButton \/ ChatInput \/ StreamLine \/ StreamEnd \/ StreamAbort

Spec == Init /\ [][Next]_vars

(***************************************************************************)
(* Properties of extract_json_array, stated without the scan of the code.  *)
(***************************************************************************)
BracketFree(s) == \A i \in 1..Len(s) : s[i] \notin {"[", "]"}

IsJsonArrayText(s) ==
  LET r == json_loads(PyStr(s))
  IN r.kind = "return" /\ r.value.kind = "array"

\* '[' minus ']' among the characters s[from..to].
DepthAt(s, from, to) ==
  Cardinality({k \in from..to : s[k] = "["}) - Cardinality({k \in from..to : s[k] = "]"})

HasOpening(s) == \E i \in 1..Len(s) : s[i] = "["

FirstOpening(s) == CHOOSE i \in 1..Len(s) : s[i] = "[" /\ \A j \in 1..(i - 1) : s[j] # "["

\* Counted from the first '[', the depth comes back to zero somewhere.
DepthReturnsToZero(s) ==
  HasOpening(s) /\ \E i \in FirstOpening(s)..Len(s) : DepthAt(s, FirstOpening(s), i) = 0

Extracted == outcome.kind # "idle"

\* C1: for every JSON array text m (its string values may hold '[' or ']') and
\* every bracket-free prefix p and suffix q, extract_json_array(p + m + q)
\* returns exactly m.
C1_RoundTrip ==
  Extracted =>
    \A i \in 1..(Len(text.s) + 1) : \A j \in (i - 1)..Len(text.s) :
      ( /\ BracketFree(SubSeq(text.s, 1, i - 1))
        /\ BracketFree(SubSeq(text.s, j + 1, Len(text.s)))
        /\ IsJsonArrayText(SubSeq(text.s, i, j)) )
      => outcome = Returned(SubSeq(text.s, i, j))

\* C2: extract_json_array fails exactly when the text has no '[' (reason: no
\* opening bracket) or when the depth counted from the first '[' never returns
\* to zero (reason: no matching closing bracket); the reasons differ, and a
\* failing call returns no substring.
C2_Failures ==
  Extracted =>
    /\ ~HasOpening(text.s) =>
         /\ outcome.kind = "raise"
         /\ outcome.error.msg = "no '[' found in text"
    /\ (HasOpening(text.s) /\ ~DepthReturnsToZero(text.s)) =>
         /\ outcome.kind = "raise"
         /\ outcome.error.msg = "no matching closing ']' found"
    /\ DepthReturnsToZero(text.s) => outcome.kind = "return"
    /\ outcome.kind = "raise" => outcome.value = <<>>
    /\ "no '[' found in text" # "no matching closing ']' found"

\* An unbalanced text that holds both kinds of bracket has been refused.
C2_Witness ==
  /\ Extracted
  /\ outcome.kind = "raise"
  /\ outcome.error.msg = "no matching closing ']' found"
  /\ \E i \in 1..Len(text.s) : text.s[i] = "]"
  /\ Len(text.s) = MaxTextLen

(***************************************************************************)
(* Properties of the structured queries.                                   *)
(***************************************************************************)
StatusIsError(resp) == resp.status \in 400..599

HasContentPath(resp) ==
  /\ resp.is_json
  /\ "choices" \in DOMAIN resp.json
  /\ Len(resp.json.choices) >= 1
  /\ "message" \in DOMAIN resp.json.choices[1]
  /\ "content" \in DOMAIN resp.json.choices[1].message

ContentOf(resp) == resp.json.choices[1].message.content

\* The text with its leading and trailing whitespace removed.
Trimmed(s) ==
  LET inner == {i \in 1..Len(s) : s[i] \notin PyWhitespace}
  IN IF inner = {}
     THEN <<>>
     ELSE SubSeq(s, CHOOSE i \in inner : \A k \in inner : i <= k,
                    CHOOSE j \in inner : \A k \in inner : k <= j)

\* The reply is a JSON array between a bracket-free prefix and suffix.
Wrapped(t) ==
  /\ t.type = "str"
  /\ \E i \in 1..(Len(t.s) + 1) : \E j \in (i - 1)..Len(t.s) :
       /\ BracketFree(SubSeq(t.s, 1, i - 1))
       /\ BracketFree(SubSeq(t.s, j + 1, Len(t.s)))
       /\ IsJsonArrayText(SubSeq(t.s, i, j))

\* The parse of what the extractor returns for t, or the extractor's error.
ExtractedParse(t) ==
  LET arr == extract_json_array(t)
  IN IF arr.kind = "raise" THEN arr ELSE json_loads(PyStr(arr.value))

\* Neither the direct parse nor the extractor-assisted parse gives a value.
TotalFailure(t) == json_loads(t).kind = "raise" /\ ExtractedParse(t).kind = "raise"

\* The error of the attempt that failed last.
UnderlyingError(t) ==
  IF json_loads(t).error.exc = "JSONDecodeError"
  THEN ExtractedParse(t).error
  ELSE json_loads(t).error

\* get_travel_recommendations ran and the endpoint delivered a reply.
RecsGotReply ==
  /\ op.name = "get_travel_recommendations"
  /\ ~StatusIsError(endpoint[1])
  /\ HasContentPath(endpoint[1])

\* C4: get_travel_recommendations parses the reply directly first and calls
\* the extractor only when that parse fails: a reply that is valid JSON is
\* returned as parsed with no extractor call, and for a JSON array wrapped in
\* bracket-free prose the result is the parse of the extracted array.
C4_DirectFirst ==
  RecsGotReply =>
    LET t == ContentOf(endpoint[1])
        direct == json_loads(t)
    IN /\ extractor_calls \in {0, 1}
       /\ direct.kind = "return" => (extractor_calls = 0 /\ outcome = direct)
       /\ extractor_calls = 1 => direct.kind = "raise"
       /\ (direct.kind = "raise" /\ Wrapped(t)) =>
            /\ extractor_calls = 1
            /\ ExtractedParse(t).kind = "return" => outcome = ExtractedParse(t)
            /\ outcome.kind = "return" => outcome = ExtractedParse(t)

\* An array after a word of prose came back through the extractor.
C4_Witness ==
  /\ RecsGotReply
  /\ json_loads(ContentOf(endpoint[1])).kind = "raise"
  /\ Wrapped(ContentOf(endpoint[1]))
  /\ ContentOf(endpoint[1]).s[1] = "x"
  /\ extractor_calls = 1
  /\ outcome.kind = "return"
  /\ outcome.value.kind = "array"
  /\ outcome.value.elems = <<"object">>

RecsStepWithReply ==
  /\ op'.name = "get_travel_recommendations"
  /\ ~StatusIsError(endpoint[1])
  /\ HasContentPath(endpoint[1])

\* What get_travel_recommendations does apart from what its error carries.
RecsFailureStores ==
  LET t == ContentOf(endpoint[1])
  IN /\ TotalFailure(t) =>
          /\ outcome'.kind = "raise"
          /\ outcome'.value = <<>>
          /\ last_recs_raw' = t
          /\ outcome'.error.exc = "ValueError"
          /\ \E i \in DOMAIN outcome'.error.parts :
               outcome'.error.parts[i] = str(UnderlyingError(t))
     /\ ~TotalFailure(t) =>
          /\ outcome'.kind = "return"
          /\ last_recs_raw' = last_recs_raw

\* C5 as stated: when both parses of the reply fail, get_travel_recommendations
\* returns nothing, leaves the raw reply in session_state['last_recs_raw'] and
\* raises an error that wraps the underlying parse error and the raw text; a
\* successful parse leaves the stored raw text unchanged.
C5_Original ==
  [][RecsStepWithReply =>
       /\ RecsFailureStores
       /\ TotalFailure(ContentOf(endpoint[1])) =>
            \E i \in DOMAIN outcome'.error.parts :
              outcome'.error.parts[i] = ContentOf(endpoint[1])]_vars

\* C5 as amended: the error raised wraps the underlying parse error only; the
\* raw text is not in the error, it is only stored in the session.
C5_RawStoredNotWrapped ==
  [][RecsStepWithReply =>
       /\ RecsFailureStores
       /\ TotalFailure(ContentOf(endpoint[1])) =>
            \A i \in DOMAIN outcome'.error.parts :
              outcome'.error.parts[i] # ContentOf(endpoint[1])]_vars

\* Both attempts were made on a reply that holds brackets, and both failed.
C5_Witness ==
  /\ RecsGotReply
  /\ TotalFailure(ContentOf(endpoint[1]))
  /\ extractor_calls = 1
  /\ HasOpening(ContentOf(endpoint[1]).s)
  /\ outcome.kind = "raise"
  /\ last_recs_raw = ContentOf(endpoint[1])

\* The completion call of fetch_global_events fails on this response.
CallFails(resp) ==
  \/ StatusIsError(resp)
  \/ ~HasContentPath(resp)
  \/ ContentOf(resp).type # "str"

\* C6: fetch_global_events never propagates an error: when the completion
\* call fails (HTTP status, missing content path) or both parses fail it
\* returns an empty sequence, and otherwise the parsed events.
C6_NeverPropagates ==
  op.name = "fetch_global_events" =>
    /\ outcome.kind = "return"
    /\ outcome.error = NoError
    /\ CallFails(endpoint[1]) => outcome.value = EmptyList
    /\ ~CallFails(endpoint[1]) =>
         LET t == PyStr(Trimmed(ContentOf(endpoint[1]).s))
         IN /\ TotalFailure(t) => outcome.value = EmptyList
            /\ json_loads(t).kind = "return" => outcome = json_loads(t)
            /\ (json_loads(t).kind = "raise" /\ ~TotalFailure(t)) =>
                 outcome = ExtractedParse(t)

\* The endpoint answered with an HTTP error and the call gave [].
C6_Witness ==
  /\ op.name = "fetch_global_events"
  /\ StatusIsError(endpoint[1])
  /\ outcome = Returned(EmptyList)

\* C9: every element of a sequence returned by get_travel_recommendations or
\* fetch_global_events is a JSON object; a reply that parses to anything else
\* is not returned.
C9_ElementsAreObjects ==
  (op.name \in {"get_travel_recommendations", "fetch_global_events"} /\ outcome.kind = "return") =>
    /\ outcome.value.kind = "array"
    /\ \A i \in DOMAIN outcome.value.elems : outcome.value.elems[i] = "object"

(***************************************************************************)
(* Properties of the completion client and of the chat session.            *)
(***************************************************************************)
IsDoneLine(l) == l.prefix = "data: " /\ l.payload = "[DONE]"

\* A "data: " line whose payload is JSON with a non-empty text at
\* choices[0].delta.content.
HasDelta(l) ==
  /\ l.prefix = "data: "
  /\ l.is_json
  /\ "choices" \in DOMAIN l.json
  /\ Len(l.json.choices) >= 1
  /\ "delta" \in DOMAIN l.json.choices[1]
  /\ "content" \in DOMAIN l.json.choices[1].delta
  /\ l.json.choices[1].delta.content.type = "str"
  /\ l.json.choices[1].delta.content.s # <<>>

\* The lines in front of the first "data: [DONE]" line.
BeforeDone(ls) ==
  LET dones == {i \in 1..Len(ls) : IsDoneLine(ls[i])}
  IN IF dones = {}
     THEN ls
     ELSE SubSeq(ls, 1, (CHOOSE i \in dones : \A k \in dones : i <= k) - 1)

ExpectedDeltas(ls) ==
  LET kept == SelectSeq(BeforeDone(ls), HasDelta)
  IN [i \in 1..Len(kept) |-> kept[i].json.choices[1].delta.content]

StreamOpened == op.name = "chat_input" /\ ~StatusIsError(endpoint[1])

StreamOver ==
  \/ pc = "exhausted"
  \/ pc = "streaming" /\ lines = <<>>
  \/ outcome.kind = "return"

\* C3: for every sequence of SSE lines the stream produces exactly the
\* non-empty choices[0].delta.content of the "data: " lines in front of the
\* first "data: [DONE]" line, in line order; any other line is skipped without
\* ending the stream, and nothing after the first [DONE] is produced.
C3_StreamDeltas ==
  StreamOpened =>
    LET all == endpoint[1].lines
    IN /\ yielded = ExpectedDeltas(SubSeq(all, 1, Len(all) - Len(lines)))
       /\ StreamOver => yielded = ExpectedDeltas(all)
       /\ groq_chat_stream(endpoint[1]) = Returned(ExpectedDeltas(all))

\* A stream with an unparsable line between two deltas has run to its end.
C3_Witness ==
  /\ StreamOpened
  /\ outcome.kind = "return"
  /\ endpoint[1].lines = <<DataLine(ChunkContent(DeltaHi)), BadJsonLine,
                           DataLine(ChunkContent(DeltaThere))>>
  /\ yielded = <<DeltaHi, DeltaThere>>

IsPrefix(a, b) == Len(a) <= Len(b) /\ SubSeq(b, 1, Len(a)) = a

\* C7: a suggestion button given text t, on a history H and with a successful
\* reply r, leaves the history H, then the user message t, then the assistant
\* message r, and nothing else.
C7_SendAndAppend ==
  [][(op'.name = "suggestion_button" /\ outcome'.kind = "return") =>
       /\ chat' = chat \o <<Message("user", op'.input),
                            Message("assistant", outcome'.value)>>
       /\ outcome'.value = PyStr(Trimmed(ContentOf(endpoint'[1]).s))]_vars

\* A button's turn succeeded on top of an earlier exchange.
C7_Witness ==
  /\ op.name = "suggestion_button"
  /\ outcome.kind = "return"
  /\ Len(chat) >= 4
  /\ chat[Len(chat)] = Message("assistant", outcome.value)
  /\ chat[Len(chat) - 1] = Message("user", op.input)

\* C8: the history is append-only over any sequence of chat turns: each step
\* leaves the earlier history as a prefix; a turn whose completion call fails
\* keeps its user message and appends no assistant message.
C8_AppendOnly ==
  [][/\ IsPrefix(chat, chat')
     /\ (pc = "idle" /\ op'.name = "suggestion_button" /\ outcome'.kind = "raise") =>
          chat' = Append(chat, Message("user", op'.input))
     /\ (pc = "idle" /\ pc' = "idle" /\ op'.name = "chat_input") =>
          /\ outcome'.kind = "raise"
          /\ chat' = Append(chat, Message("user", op'.input))
     /\ (pc = "streaming" /\ outcome'.kind = "raise") => chat' = chat
     /\ outcome'.kind = "raise" =>
          /\ chat' # <<>>
          /\ chat'[Len(chat')] = Message("user", op'.input)]_vars

\* A turn failed after an earlier turn had failed: both user messages stay.
C8_Witness ==
  /\ outcome.kind = "raise"
  /\ Len(chat) >= 3
  /\ chat[Len(chat)].role = "user"
  /\ chat[Len(chat) - 1].role = "user"
  /\ chat[1].role = "user"
  /\ chat[2].role = "assistant"

RECURSIVE Concatenation(_)
Concatenation(ds) ==
  IF Len(ds) = 0
  THEN <<>>
  ELSE Concatenation(SubSeq(ds, 1, Len(ds) - 1)) \o ds[Len(ds)].s

Assistants(h) == Cardinality({i \in DOMAIN h : h[i].role = "assistant"})

\* C11: a streaming chat turn appends no assistant message while the stream
\* is being read; the step that completes the stream comes after every delta
\* of the stream has been produced and appends exactly one assistant message,
\* whose content is the produced deltas concatenated in order (the empty text
\* when there was none).
C11_OneAssistantAtEnd ==
  [][/\ (op'.name = "chat_input" /\ pc' # "idle") =>
          /\ Assistants(chat') = Assistants(chat)
          /\ chat' = IF pc = "idle"
                     THEN Append(chat, Message("user", op'.input))
                     ELSE chat
     /\ (pc # "idle" /\ outcome'.kind = "return") =>
          /\ yielded = ExpectedDeltas(endpoint[1].lines)
          /\ chat[Len(chat)] = Message("user", op.input)
          /\ chat' = Append(chat, Message("assistant", PyStr(Concatenation(yielded))))
          /\ Assistants(chat') = Assistants(chat) + 1
          /\ outcome'.value = PyStr(Concatenation(yielded))]_vars

\* A turn on top of an earlier exchange has streamed two deltas to its end.
C11_Witness ==
  /\ op.name = "chat_input"
  /\ pc = "idle"
  /\ outcome.kind = "return"
  /\ yielded = <<DeltaHi, DeltaThere>>
  /\ Len(chat) = 4
  /\ chat[4] = Message("assistant", PyStr(<<"H", "i", " ", "t", "h", "e", "r", "e">>))

\* A turn whose stream held no delta has ended with the empty text.
C11_EmptyWitness ==
  /\ op.name = "chat_input"
  /\ pc = "idle"
  /\ outcome.kind = "return"
  /\ yielded = <<>>
  /\ chat[Len(chat)] = Message("assistant", PyStr(<<>>))

(***************************************************************************)
(* Properties of the requests of the chat session.                         *)
(***************************************************************************)
StoredRoles == {"user", "assistant"}

\* C12: the stored history never holds a system message, and every request a
\* chat turn sends is the system persona, once and in front, followed by the
\* whole history stored at that moment, which ends with the user message the
\* turn has just appended.
C12_PersonaAtRequestTime ==
  /\ [](\A i \in DOMAIN chat : chat[i].role \in StoredRoles)
  /\ [][requests' # requests =>
          /\ pc = "idle"
          /\ Len(requests') = 1
          /\ requests'[1].messages[1] = SystemPersona
          /\ \A i \in 2..Len(requests'[1].messages) :
               requests'[1].messages[i].role \in StoredRoles
          /\ Tail(requests'[1].messages) = Append(chat, Message("user", op'.input))
          /\ IsPrefix(Tail(requests'[1].messages), chat')
          /\ Len(chat') <= Len(requests'[1].messages)
          /\ requests'[1].messages[Len(requests'[1].messages)]
               = Message("user", op'.input)]_vars

\* The request of a third turn carries the persona and the stored history of
\* a streamed exchange and a failed button turn before it.
C12_Witness ==
  /\ op.name = "chat_input"
  /\ pc = "streaming"
  /\ Len(chat) = 4
  /\ chat[2].role = "assistant"
  /\ chat[3].content \in ButtonPrompts
  /\ Len(requests) = 1
  /\ requests[1].messages = <<SystemPersona>> \o chat

====
